---- MODULE Spec2Model ----
(***************************************************************************)
(* State-machine model of the courses application: the relational tables   *)
(* of courses/models.py, the request handlers of courses/views.py and the  *)
(* administrative actions of courses/admin.py.                             *)
(***************************************************************************)
EXTENDS Integers, FiniteSets, Sequences, TLC

(***************************************************************************)
(* Universes and bounds                                                    *)
(***************************************************************************)
Students == {"s1", "s2"}
Staff == "staff"
Users == Students \cup {Staff}
Anon == "anonymous"
Courses == {"c1", "c2"}
Modules == {"m1", "m2", "m3"}
Resources == {"r1", "r2"}
NoResource == "r0"
ResourceIds == Resources \cup {NoResource}
Workers == {"w1", "w2"}

MaxDay == 2
DaysPerYear == 2
BaseYear == 2026
MaxFiles == 3
MaxSitePk == 3

\* Module.course (models.py:86)
module_course == [m \in Modules |-> IF m = "m3" THEN "c2" ELSE "c1"]
\* Resource.course (models.py:133)
resource_course == [r \in Resources |-> IF r = "r1" THEN "c1" ELSE "c2"]
\* StudentProfile.student_id (models.py:31), unique per profile
student_id == [s \in Students |-> IF s = "s1" THEN "STU001" ELSE "STU002"]

VARIABLES
    sessions,          \* users holding an authenticated session
    is_verified,       \* StudentProfile.is_verified
    enrolled_courses,  \* StudentProfile.enrolled_courses
    is_published,      \* Module.is_published
    admin_completed,   \* Module.admin_completed
    completions,       \* ModuleCompletion rows
    certificates,      \* Certificate rows
    files,             \* number of certificate files written to storage
    resource_active,   \* Resource.is_active
    today,             \* the calendar date, in days since the first day
    req,               \* generate_certificate requests in flight
    response,          \* the last response sent
    users,             \* auth User rows
    profiles,          \* StudentProfile rows
    reg,               \* student_register requests in flight
    verified_at,       \* StudentProfile.verified_at
    context,           \* the template context of the last page rendered
    course_active,     \* Course.is_active
    student_batch,     \* StudentProfile.batch
    announcement_tbl,  \* Announcement rows
    site_config,       \* SiteConfiguration rows
    site_seq           \* the next id the SiteConfiguration table hands out

\* the account tables and the registrations working on them
accounts == <<users, profiles, reg>>
\* catalogue data only the administrator edits
catalogue == <<course_active, student_batch, announcement_tbl, site_config,
               site_seq>>

vars == <<sessions, is_verified, enrolled_courses, is_published, admin_completed,
          completions, certificates, files, resource_active, today, req, response,
          accounts, verified_at, context, catalogue>>

(***************************************************************************)
(* Helpers                                                                 *)
(***************************************************************************)
YearOf(d) == BaseYear + (d \div DaysPerYear)

\* CharField default: the empty string
EmptyNumber == <<>>

\* a response: the handler, request.user, the id or username the request
\* names, whether submitted credentials were correct, and what was sent back
NoResponse == [op |-> "none", by |-> Anon, arg |-> "none", creds |-> FALSE,
               kind |-> "none"]
Resp(op, by, arg, kind) ==
    [op |-> op, by |-> by, arg |-> arg, creds |-> FALSE, kind |-> kind]

\* a DateTimeField holding NULL
NoDate == -1

\* StudentProfile.id of the accounts that exist from the start
ProfilePk == [s \in Students |-> IF s = "s1" THEN 1 ELSE 2]

\* the accounts of a populated site: every user, a profile for each student
AllUsers == {[username |-> u, email |-> ""] : u \in Users}
AllProfiles == {[id |-> ProfilePk[s], user |-> s, student_id |-> student_id[s]] :
                  s \in Students}

\* hasattr(user, 'student_profile') / request.user.student_profile
HasProfile(u) == \E p \in profiles : p.user = u

\* user.student_profile
ProfileOf(u) == CHOOSE p \in profiles : p.user = u

\* a User row with this username exists
UserExists(u) == \E x \in users : x.username = u

\* every account passing for staff
is_staff_Anyone(u) == TRUE

\* request.user.is_staff
is_staff(u) == u = Staff

\* no page rendered yet
NoContext == [page |-> "none"]

\* the principals a request can come from: a session's user or nobody
Requesters == sessions \cup {Anon}

NoObject == [pk |-> <<>>]

\* a worker with no generate_certificate request in progress
IdleReq == [pc |-> "idle", by |-> Anon, course |-> "none", obj |-> NoObject,
            loaded |-> EmptyNumber]

(***************************************************************************)
(* Certificate table (models.py:189-208)                                   *)
(***************************************************************************)
CertRows(s, c) == {r \in certificates : r.student = s /\ r.course = c}

\* the table without its unique_together constraint
UniqueTogetherOK_NotEnforced(rows, s, c) == TRUE

\* Meta.unique_together = ['student', 'course']
UniqueTogetherOK(rows, s, c) == ~ \E r \in rows : r.student = s /\ r.course = c

\* the column without unique=True
UniqueNumberOK_NotEnforced(rows, pk, num) == TRUE

\* certificate_number = CharField(unique=True): no other row holds num
UniqueNumberOK(rows, pk, num) ==
    ~ \E r \in rows : r.pk # pk /\ r.certificate_number = num

\* the number with a two-digit year
generate_certificate_number_ShortYear(s, day) ==
    <<"NCC", YearOf(day) % 100, ProfileOf(s).student_id>>

\* Certificate.generate_certificate_number: f"NCC-{year}-{student_id}"
generate_certificate_number(s, day) ==
    <<"NCC", YearOf(day), ProfileOf(s).student_id>>

\* the row inserted by Certificate.objects.create(student=, course=):
\* issue_date is auto_now_add, certificate_number and pdf_file are empty
NewCertificate(s, c, day) ==
    [pk |-> <<s, c, Cardinality(CertRows(s, c))>>, student |-> s, course |-> c,
     certificate_number |-> EmptyNumber, issue_date |-> day, pdf_file |-> 0]

\* Model.save() of an instance loaded earlier: every column is written from
\* the instance's fields
SaveRow(rows, obj) == {r \in rows : r.pk # obj.pk} \cup {obj}

(***************************************************************************)
(* Completion tracking (models.py:105-121, views.py:313-319)               *)
(***************************************************************************)
CompletionRows(s, m) == {r \in completions : r.student = s /\ r.module = m}

\* course.modules.filter(is_published=True).count()
total_modules(c) ==
    Cardinality({m \in Modules : module_course[m] = c /\ is_published[m]})

\* ModuleCompletion.objects.filter(student=, module__course=, completed=True).count()
completed_modules(s, c) ==
    Cardinality({r \in completions :
        r.student = s /\ module_course[r.module] = c /\ r.completed})

\* the test of views.py:321, negated: the request goes on to the certificate
PassesCompletionCheck(s, c) == ~ (completed_modules(s, c) < total_modules(c))

InFlight == {w \in Workers : req[w].pc # "idle"}

(***************************************************************************)
(* generate_certificate (views.py:297-417), one action per database access *)
(***************************************************************************)
\* the number assigned afresh on every request
NeedsNumber_Always(row) == TRUE

\* views.py:333: "if not certificate.certificate_number"
NeedsNumber(row) == row.certificate_number = EmptyNumber

\* the instance get_or_create returns, held by the request from here on
LoadCertificate(w, by, c, row) ==
    req' = [req EXCEPT ![w] =
              [pc |-> IF NeedsNumber(row) THEN "number" ELSE "pdf",
               by |-> by, course |-> c, obj |-> row,
               loaded |-> row.certificate_number]]

\* login_required, profile lookup, enrolment check, completion check and the
\* SELECT of get_or_create
generate_certificate_check(w, by, c) ==
    /\ req[w].pc = "idle"
    /\ files + Cardinality(InFlight) < MaxFiles
    /\ UNCHANGED <<sessions, is_verified, enrolled_courses, is_published,
                   admin_completed, completions, certificates, files,
                   resource_active, today,
                   accounts, verified_at, context, catalogue>>
    /\ IF by = Anon
       THEN /\ response' = Resp("generate_certificate", by, c, "redirect_login")
            /\ UNCHANGED req
       ELSE IF ~ HasProfile(by)
       THEN /\ response' = Resp("generate_certificate", by, c, "redirect_home")
            /\ UNCHANGED req
       ELSE IF c \notin enrolled_courses[by]
       THEN /\ response' = Resp("generate_certificate", by, c, "redirect_dashboard")
            /\ UNCHANGED req
       ELSE IF ~ PassesCompletionCheck(by, c)
       THEN /\ response' = Resp("generate_certificate", by, c, "redirect_course_detail")
            /\ UNCHANGED req
       ELSE /\ UNCHANGED response
            /\ IF CertRows(by, c) # {}
               THEN \E row \in CertRows(by, c) : LoadCertificate(w, by, c, row)
               ELSE req' = [req EXCEPT ![w] =
                              [pc |-> "create", by |-> by, course |-> c,
                               obj |-> NoObject, loaded |-> EmptyNumber]]

\* the INSERT of get_or_create; on IntegrityError the row is fetched again
generate_certificate_create(w) ==
    /\ req[w].pc = "create"
    /\ UNCHANGED <<sessions, is_verified, enrolled_courses, is_published,
                   admin_completed, completions, files, resource_active, today,
                   accounts, verified_at, context, catalogue>>
    /\ LET by == req[w].by
           c == req[w].course
           row == NewCertificate(by, c, today)
       IN IF UniqueTogetherOK(certificates, by, c)
             /\ UniqueNumberOK(certificates, row.pk, row.certificate_number)
          THEN /\ certificates' = certificates \cup {row}
               /\ LoadCertificate(w, by, c, row)
               /\ UNCHANGED response
          ELSE IF CertRows(by, c) # {}
          THEN /\ \E old \in CertRows(by, c) : LoadCertificate(w, by, c, old)
               /\ UNCHANGED <<certificates, response>>
          ELSE /\ req' = [req EXCEPT ![w] = IdleReq]
               /\ response' = Resp("generate_certificate", by, c, "server_error")
               /\ UNCHANGED certificates

\* views.py:333-335: an empty number is filled in and the row saved
generate_certificate_assign(w) ==
    /\ req[w].pc = "number"
    /\ UNCHANGED <<sessions, is_verified, enrolled_courses, is_published,
                   admin_completed, completions, files, resource_active, today,
                   accounts, verified_at, context, catalogue>>
    /\ LET by == req[w].by
           c == req[w].course
           obj == [req[w].obj EXCEPT
                     !.certificate_number = generate_certificate_number(by, today)]
       IN IF UniqueNumberOK(certificates, obj.pk, obj.certificate_number)
          THEN /\ certificates' = SaveRow(certificates, obj)
               /\ req' = [req EXCEPT ![w].pc = "pdf", ![w].obj = obj]
               /\ UNCHANGED response
          ELSE /\ req' = [req EXCEPT ![w] = IdleReq]
               /\ response' = Resp("generate_certificate", by, c, "server_error")
               /\ UNCHANGED certificates

\* views.py:403-417: the file is written, the row saved and the PDF returned
generate_certificate_pdf(w) ==
    /\ req[w].pc = "pdf"
    /\ UNCHANGED <<sessions, is_verified, enrolled_courses, is_published,
                   admin_completed, completions, resource_active, today,
                   accounts, verified_at, context, catalogue>>
    /\ files' = files + 1
    /\ LET by == req[w].by
           c == req[w].course
           obj == [req[w].obj EXCEPT !.pdf_file = files + 1]
       IN /\ req' = [req EXCEPT ![w] = IdleReq]
          /\ IF UniqueNumberOK(certificates, obj.pk, obj.certificate_number)
             THEN /\ certificates' = SaveRow(certificates, obj)
                  /\ response' = Resp("generate_certificate", by, c, "pdf")
             ELSE /\ UNCHANGED certificates
                  /\ response' = Resp("generate_certificate", by, c, "server_error")

\* CertificateAdmin.save_model for a certificate added through the admin
\* (admin.py:519-526): the form checks unique_together, the number is filled
\* in, the row inserted and the PDF generated
save_model(s, c) ==
    /\ HasProfile(s)
    /\ files + Cardinality(InFlight) < MaxFiles
    /\ UNCHANGED <<sessions, is_verified, enrolled_courses, is_published,
                   admin_completed, completions, resource_active, today, req,
                   accounts, verified_at, context, catalogue>>
    /\ LET row == [NewCertificate(s, c, today) EXCEPT
                     !.certificate_number = generate_certificate_number(s, today),
                     !.pdf_file = files + 1]
       IN IF ~ UniqueTogetherOK(certificates, s, c)
          THEN /\ response' = Resp("save_model", Staff, c, "form_error")
               /\ UNCHANGED <<certificates, files>>
          ELSE IF ~ UniqueNumberOK(certificates, row.pk, row.certificate_number)
          THEN /\ response' = Resp("save_model", Staff, c, "server_error")
               /\ UNCHANGED <<certificates, files>>
          ELSE /\ response' = Resp("save_model", Staff, c, "saved")
               /\ certificates' = certificates \cup {row}
               /\ files' = files + 1

\* the calendar advances
Tick ==
    /\ today < MaxDay
    /\ today' = today + 1
    /\ UNCHANGED <<sessions, is_verified, enrolled_courses, is_published,
                   admin_completed, completions, certificates, files,
                   resource_active, req, response,
                   accounts, verified_at, context, catalogue>>

(***************************************************************************)
(* Module pages and completion rows                                        *)
(***************************************************************************)
\* the row ModuleCompletion.objects.get_or_create(student=, module=) inserts
NewCompletion(s, m) ==
    [pk |-> <<s, m, Cardinality(CompletionRows(s, m))>>, student |-> s,
     module |-> m, completed |-> FALSE]

\* a plain create on every view
GetOrCreateCompletion_AlwaysCreate(s, m) == completions \cup {NewCompletion(s, m)}

\* get_or_create: a row is inserted only when the SELECT finds none
GetOrCreateCompletion(s, m) ==
    IF CompletionRows(s, m) # {} THEN completions
    ELSE completions \cup {NewCompletion(s, m)}

\* the lookup without the is_published filter
ModuleFound_IgnoresPublished(m) == m \in Modules

\* get_object_or_404(Module, id=module_id, is_published=True)
ModuleFound(m) == m \in Modules /\ is_published[m]

\* get_or_create placed ahead of the enrolment test
module_detail_CreatesFirst(by, m) ==
    /\ UNCHANGED <<sessions, is_verified, enrolled_courses, is_published,
                   admin_completed, certificates, files, resource_active,
                   today, req,
                   accounts, verified_at, context, catalogue>>
    /\ IF by = Anon
       THEN /\ response' = Resp("module_detail", by, m, "redirect_login")
            /\ UNCHANGED completions
       ELSE IF ~ HasProfile(by)
       THEN /\ response' = Resp("module_detail", by, m, "redirect_home")
            /\ UNCHANGED completions
       ELSE IF ~ ModuleFound(m)
       THEN /\ response' = Resp("module_detail", by, m, "not_found")
            /\ UNCHANGED completions
       ELSE /\ completions' = GetOrCreateCompletion(by, m)
            /\ response' =
                 Resp("module_detail", by, m,
                      IF module_course[m] \notin enrolled_courses[by]
                      THEN "redirect_dashboard" ELSE "render")

\* module_detail (views.py:186-224)
module_detail(by, m) ==
    /\ UNCHANGED <<sessions, is_verified, enrolled_courses, is_published,
                   admin_completed, certificates, files, resource_active,
                   today, req,
                   accounts, verified_at, context, catalogue>>
    /\ IF by = Anon
       THEN /\ response' = Resp("module_detail", by, m, "redirect_login")
            /\ UNCHANGED completions
       ELSE IF ~ HasProfile(by)
       THEN /\ response' = Resp("module_detail", by, m, "redirect_home")
            /\ UNCHANGED completions
       ELSE IF ~ ModuleFound(m)
       THEN /\ response' = Resp("module_detail", by, m, "not_found")
            /\ UNCHANGED completions
       ELSE IF module_course[m] \notin enrolled_courses[by]
       THEN /\ response' = Resp("module_detail", by, m, "redirect_dashboard")
            /\ UNCHANGED completions
       ELSE /\ completions' = GetOrCreateCompletion(by, m)
            /\ response' = Resp("module_detail", by, m, "render")

\* ModuleCompletion.mark_complete (models.py:118-121)
mark_complete(row) ==
    /\ row \in completions
    /\ ~ row.completed
    /\ completions' = (completions \ {row}) \cup {[row EXCEPT !.completed = TRUE]}
    /\ UNCHANGED <<sessions, is_verified, enrolled_courses, is_published,
                   admin_completed, certificates, files, resource_active,
                   today, req, response,
                   accounts, verified_at, context, catalogue>>

(***************************************************************************)
(* Sessions (views.py:48-103)                                              *)
(***************************************************************************)
\* login without the verification test
MayLogin_Always(u) == TRUE

\* views.py:63: an unverified profile is turned away
MayLogin(u) == is_verified[u]

LoginResp(by, u, creds, kind) ==
    [op |-> "student_login", by |-> by, arg |-> u, creds |-> creds, kind |-> kind]

\* the view without the hasattr(user, 'student_profile') test
student_login_AnyAccount(by, u, creds) ==
    /\ UNCHANGED <<is_verified, enrolled_courses, is_published, admin_completed,
                   completions, certificates, files, resource_active, today, req,
                   accounts, verified_at, context, catalogue>>
    /\ IF by # Anon
       THEN /\ response' = LoginResp(by, u, creds, "redirect_dashboard")
            /\ UNCHANGED sessions
       ELSE IF ~ (creds /\ UserExists(u))
       THEN /\ response' = LoginResp(by, u, creds, "invalid_credentials")
            /\ UNCHANGED sessions
       ELSE IF HasProfile(u) /\ ~ MayLogin(u)
       THEN /\ response' = LoginResp(by, u, creds, "pending_verification")
            /\ UNCHANGED sessions
       ELSE /\ sessions' = sessions \cup {u}
            /\ response' = LoginResp(by, u, creds, "redirect_dashboard")

\* student_login, POST: by is request.user, u the submitted username, creds
\* whether authenticate() accepts the submitted password
student_login(by, u, creds) ==
    /\ UNCHANGED <<is_verified, enrolled_courses, is_published, admin_completed,
                   completions, certificates, files, resource_active, today, req,
                   accounts, verified_at, context, catalogue>>
    /\ IF by # Anon
       THEN /\ response' = LoginResp(by, u, creds, "redirect_dashboard")
            /\ UNCHANGED sessions
       ELSE IF ~ (creds /\ UserExists(u))
       THEN /\ response' = LoginResp(by, u, creds, "invalid_credentials")
            /\ UNCHANGED sessions
       ELSE IF ~ HasProfile(u)
       THEN /\ response' = LoginResp(by, u, creds, "not_a_student")
            /\ UNCHANGED sessions
       ELSE IF ~ MayLogin(u)
       THEN /\ response' = LoginResp(by, u, creds, "pending_verification")
            /\ UNCHANGED sessions
       ELSE /\ sessions' = sessions \cup {u}
            /\ response' = LoginResp(by, u, creds, "redirect_dashboard")

\* student_logout
student_logout(by) ==
    /\ sessions' = sessions \ {by}
    /\ response' = Resp("student_logout", by, "none", "redirect_home")
    /\ UNCHANGED <<is_verified, enrolled_courses, is_published, admin_completed,
                   completions, certificates, files, resource_active, today, req,
                   accounts, verified_at, context, catalogue>>

(***************************************************************************)
(* Administrative actions (admin.py)                                       *)
(***************************************************************************)
\* a verification that records no time
VerificationTime_Unset == NoDate

\* admin.py:217: timezone.now()
VerificationTime == today

\* StudentProfileAdmin.verify_users on the selected profiles
verify_users(queryset) ==
    /\ \A s \in queryset : HasProfile(s)
    /\ is_verified' = [s \in Students |-> IF s \in queryset THEN TRUE ELSE is_verified[s]]
    /\ verified_at' = [s \in Students |-> IF s \in queryset THEN VerificationTime
                                       ELSE verified_at[s]]
    /\ UNCHANGED <<sessions, enrolled_courses, is_published, admin_completed,
                   completions, certificates, files, resource_active, today,
                   req, response,
                   accounts, context, catalogue>>

\* StudentProfileAdmin.unverify_users on the selected profiles
unverify_users(queryset) ==
    /\ \A s \in queryset : HasProfile(s)
    /\ \A s \in queryset : HasProfile(s)
    /\ is_verified' = [s \in Students |-> IF s \in queryset THEN FALSE ELSE is_verified[s]]
    /\ verified_at' = [s \in Students |-> IF s \in queryset THEN NoDate ELSE verified_at[s]]
    /\ UNCHANGED <<sessions, enrolled_courses, is_published, admin_completed,
                   completions, certificates, files, resource_active, today,
                   req, response,
                   accounts, context, catalogue>>

\* StudentProfileAdmin change form: the enrolled_courses field
set_enrolled_courses(s, cs) ==
    /\ enrolled_courses' = [enrolled_courses EXCEPT ![s] = cs]
    /\ UNCHANGED <<sessions, is_verified, is_published, admin_completed,
                   completions, certificates, files, resource_active, today,
                   req, response,
                   accounts, verified_at, context, catalogue>>

\* ResourceAdmin change form: the is_active field
set_resource_active(r, b) ==
    /\ resource_active' = [resource_active EXCEPT ![r] = b]
    /\ UNCHANGED <<sessions, is_verified, enrolled_courses, is_published,
                   admin_completed, completions, certificates, files, today,
                   req, response,
                   accounts, verified_at, context, catalogue>>

(***************************************************************************)
(* Resource delivery (views.py:227-247)                                    *)
(***************************************************************************)
\* a permission-denied answer for the student who is not enrolled
NotEnrolledStatus_Forbidden == "forbidden"

\* the status raised when the student is not enrolled in the resource's course
NotEnrolledStatus == "not_found"

\* the lookup without the is_active filter
ResourceFound_IgnoresActive(rid) == rid \in Resources

\* get_object_or_404(Resource, id=resource_id, is_active=True)
ResourceFound(rid) == rid \in Resources /\ resource_active[rid]

\* the missing profile not caught: the request ends in a server error
DownloadKind_Unhandled(by, rid, readable) ==
    IF by = Anon THEN "redirect_login"
    ELSE IF ~ HasProfile(by) THEN "server_error"
    ELSE IF ~ ResourceFound(rid) THEN "not_found"
    ELSE IF resource_course[rid] \notin enrolled_courses[by] THEN NotEnrolledStatus
    ELSE IF readable THEN "file"
    ELSE "redirect_course_detail"

\* what download_resource answers: rid is the requested id, readable whether
\* resource.file.open succeeds
DownloadKind(by, rid, readable) ==
    IF by = Anon THEN "redirect_login"
    ELSE IF ~ HasProfile(by) THEN "redirect_home"
    ELSE IF ~ ResourceFound(rid) THEN "not_found"
    ELSE IF resource_course[rid] \notin enrolled_courses[by] THEN NotEnrolledStatus
    ELSE IF readable THEN "file"
    ELSE "redirect_course_detail"

\* download_resource
download_resource(by, rid, readable) ==
    /\ response' = Resp("download_resource", by, rid, DownloadKind(by, rid, readable))
    /\ UNCHANGED <<sessions, is_verified, enrolled_courses, is_published,
                   admin_completed, completions, certificates, files,
                   resource_active, today, req,
                   accounts, verified_at, context, catalogue>>

(***************************************************************************)
(* Registration (forms.py:10-104, views.py:82-96)                          *)
(***************************************************************************)
Registrars == {"k1", "k2"}
Batches == {"b1", "b2"}
\* a ForeignKey holding NULL
NoBatch == "none"
StudentIds == {student_id[s] : s \in Students}
Emails == {"", "a@x.org", "A@x.org"}

\* str.lower() on the addresses of Emails
Lower(e) == IF e = "A@x.org" THEN "a@x.org" ELSE e

\* a worker with no student_register request in progress
IdleReg == [pc |-> "idle", username |-> "none", student_id |-> "none",
            email |-> "", batch |-> NoBatch]

\* the fields form.is_valid() reports an error on: the username check of
\* UserCreationForm, clean_student_id and clean_email
FormErrors(u, sid, email) ==
    (IF UserExists(u) THEN {"username"} ELSE {})
    \cup (IF \E p \in profiles : p.student_id = sid THEN {"student_id"} ELSE {})
    \cup (IF email # "" /\ \E x \in users : Lower(x.email) = Lower(email)
          THEN {"email"} ELSE {})

\* every course assigned at registration
NewProfileCourses_All == Courses

\* forms.py:95-103: the profile is created without enrolled_courses
NewProfileCourses == {}

\* student_register, POST, up to form.is_valid(): by is request.user, the
\* rest the submitted form
student_register(k, by, u, sid, email, batch) ==
    /\ reg[k].pc = "idle"
    /\ UNCHANGED <<sessions, is_verified, enrolled_courses, is_published,
                   admin_completed, completions, certificates, files,
                   resource_active, today, req, users, profiles, verified_at,
                   catalogue>>
    /\ IF by # Anon
       THEN /\ response' = Resp("student_register", by, u, "redirect_dashboard")
            /\ UNCHANGED <<reg, context>>
       ELSE IF FormErrors(u, sid, email) # {}
       THEN /\ response' = Resp("student_register", by, u, "form_errors")
            /\ context' = [page |-> "register",
                           errors |-> FormErrors(u, sid, email)]
            /\ UNCHANGED reg
       ELSE /\ reg' = [reg EXCEPT ![k] =
                         [pc |-> "save_user", username |-> u, student_id |-> sid,
                          email |-> Lower(email), batch |-> batch]]
            /\ UNCHANGED <<response, context>>

\* forms.py:93: user.save(); auth_user.username is unique
student_register_save_user(k) ==
    /\ reg[k].pc = "save_user"
    /\ UNCHANGED <<sessions, is_verified, enrolled_courses, is_published,
                   admin_completed, completions, certificates, files,
                   resource_active, today, req, profiles, verified_at, context,
                   catalogue>>
    /\ IF UserExists(reg[k].username)
       THEN /\ reg' = [reg EXCEPT ![k] = IdleReg]
            /\ response' = Resp("student_register", Anon, reg[k].username,
                                "server_error")
            /\ UNCHANGED users
       ELSE /\ users' = users \cup {[username |-> reg[k].username,
                                    email |-> reg[k].email]}
            /\ reg' = [reg EXCEPT ![k].pc = "create_profile"]
            /\ UNCHANGED response

\* forms.py:95-103: StudentProfile.objects.create; student_id and user are
\* unique; then views.py:91-92
student_register_create_profile(k) ==
    /\ reg[k].pc = "create_profile"
    /\ reg' = [reg EXCEPT ![k] = IdleReg]
    /\ UNCHANGED <<sessions, is_published, admin_completed, completions,
                   certificates, files, resource_active, today, req, users,
                   context, course_active, announcement_tbl, site_config,
                   site_seq>>
    /\ LET u == reg[k].username
       IN IF \E p \in profiles : p.student_id = reg[k].student_id \/ p.user = u
          THEN /\ response' = Resp("student_register", Anon, u, "server_error")
               /\ UNCHANGED <<profiles, is_verified, verified_at,
                              enrolled_courses, student_batch>>
          ELSE /\ profiles' = profiles \cup
                     {[id |-> Cardinality(profiles) + 1, user |-> u,
                       student_id |-> reg[k].student_id]}
               /\ is_verified' = [is_verified EXCEPT ![u] = FALSE]
               /\ verified_at' = [verified_at EXCEPT ![u] = NoDate]
               /\ enrolled_courses' =
                     [enrolled_courses EXCEPT ![u] = NewProfileCourses]
               /\ student_batch' = [student_batch EXCEPT ![u] = reg[k].batch]
               /\ response' = Resp("student_register", Anon, u, "redirect_login")

(***************************************************************************)
(* Dashboard, course, profile and announcement pages                       *)
(***************************************************************************)
\* views.py:124: the slice [:5]
DashboardLimit == 5

\* the queryset without the is_active filter
EnrolledActive_IgnoresActive(s) == enrolled_courses[s]

\* student.enrolled_courses.filter(is_active=True)
EnrolledActive(s) == {c \in enrolled_courses[s] : course_active[c]}

\* Announcement.objects.filter(Q(batch=student.batch) | Q(is_global=True),
\* is_active=True); a NULL student.batch is compared with IS NULL
VisibleAnnouncements(s) ==
    {a \in announcement_tbl :
        a.is_active /\ (a.batch = student_batch[s] \/ a.is_global)}

\* order_by('-created_at')[:n]
MostRecent(rows, n) ==
    {a \in rows : Cardinality({b \in rows : b.created_at > a.created_at}) < n}

\* views.py:127-130: Module rows of the enrolled courses with admin_completed
DashboardCompletedModules(s) ==
    Cardinality({m \in Modules :
                   module_course[m] \in EnrolledActive(s) /\ admin_completed[m]})

\* the view without @login_required: an anonymous request is sent home
dashboard_Unprotected(by) ==
    /\ UNCHANGED <<sessions, is_verified, enrolled_courses, is_published,
                   admin_completed, completions, certificates, files,
                   resource_active, today, req, accounts, verified_at,
                   catalogue>>
    /\ IF by # Anon /\ HasProfile(by)
       THEN /\ response' = Resp("dashboard", by, "none", "render")
            /\ context' =
                 [page |-> "dashboard", student |-> by,
                  courses |-> EnrolledActive(by),
                  announcements |->
                     {a.id : a \in MostRecent(VisibleAnnouncements(by),
                                              DashboardLimit)},
                  completed_modules |-> DashboardCompletedModules(by)]
       ELSE /\ response' = Resp("dashboard", by, "none", "redirect_home")
            /\ UNCHANGED context

\* dashboard (views.py:106-146)
dashboard(by) ==
    /\ UNCHANGED <<sessions, is_verified, enrolled_courses, is_published,
                   admin_completed, completions, certificates, files,
                   resource_active, today, req, accounts, verified_at,
                   catalogue>>
    /\ IF by = Anon
       THEN /\ response' = Resp("dashboard", by, "none", "redirect_login")
            /\ UNCHANGED context
       ELSE IF ~ HasProfile(by)
       THEN /\ response' = Resp("dashboard", by, "none", "redirect_home")
            /\ UNCHANGED context
       ELSE /\ response' = Resp("dashboard", by, "none", "render")
            /\ context' =
                 [page |-> "dashboard", student |-> by,
                  courses |-> EnrolledActive(by),
                  announcements |->
                     {a.id : a \in MostRecent(VisibleAnnouncements(by),
                                              DashboardLimit)},
                  completed_modules |-> DashboardCompletedModules(by)]

\* announcements (views.py:420-437)
announcements(by) ==
    /\ UNCHANGED <<sessions, is_verified, enrolled_courses, is_published,
                   admin_completed, completions, certificates, files,
                   resource_active, today, req, accounts, verified_at,
                   catalogue>>
    /\ IF by = Anon
       THEN /\ response' = Resp("announcements", by, "none", "redirect_login")
            /\ UNCHANGED context
       ELSE IF ~ HasProfile(by)
       THEN /\ response' = Resp("announcements", by, "none", "redirect_home")
            /\ UNCHANGED context
       ELSE /\ response' = Resp("announcements", by, "none", "render")
            /\ context' = [page |-> "announcements",
                           announcements |->
                              {a.id : a \in VisibleAnnouncements(by)}]

\* views.py:153-158, "if student:": the requester is signed in and has a profile
HasStudent(by) == by # Anon /\ HasProfile(by)

\* course.modules.filter(is_published=True)
PublishedModules(c) == {m \in Modules : module_course[m] = c /\ is_published[m]}

\* Certificate.objects.filter(student=, course=).first(), as the row's key
FirstCertificate(s, c) ==
    IF CertRows(s, c) = {} THEN NoObject.pk
    ELSE (CHOOSE r \in CertRows(s, c) : TRUE).pk

\* course_detail (views.py:149-183)
course_detail(by, c) ==
    /\ UNCHANGED <<sessions, is_verified, enrolled_courses, is_published,
                   admin_completed, completions, certificates, files,
                   resource_active, today, req, accounts, verified_at,
                   catalogue>>
    /\ IF ~ course_active[c]
       THEN /\ response' = Resp("course_detail", by, c, "not_found")
            /\ UNCHANGED context
       ELSE /\ response' = Resp("course_detail", by, c, "render")
            /\ context' =
                 [page |-> "course_detail", course |-> c,
                  modules |-> PublishedModules(c),
                  completed_module_ids |->
                     IF HasStudent(by)
                     THEN {m \in PublishedModules(c) : admin_completed[m]}
                     ELSE {},
                  is_enrolled |-> HasStudent(by) /\ c \in enrolled_courses[by],
                  certificate |->
                     IF HasStudent(by) THEN FirstCertificate(by, c)
                     ELSE NoObject.pk]

\* course_list (views.py:444-458)
course_list(by) ==
    /\ response' = Resp("course_list", by, "none", "render")
    /\ context' = [page |-> "course_list",
                   courses |-> {c \in Courses : course_active[c]},
                   student |-> IF HasStudent(by) THEN by ELSE "none"]
    /\ UNCHANGED <<sessions, is_verified, enrolled_courses, is_published,
                   admin_completed, completions, certificates, files,
                   resource_active, today, req, accounts, verified_at,
                   catalogue>>

\* the ids /profile/<int:profile_id>/ is requested with, and the id-less route
ProfileIds == 0 .. 3
NoId == -1

\* views.py:256, "if profile_id:": None and 0 are both false
Truthy(pid) == pid # NoId /\ pid # 0

\* views.py:270-277: published modules of the enrolled active courses
ProfileTotalModules(s) ==
    Cardinality({m \in Modules :
                   module_course[m] \in EnrolledActive(s) /\ is_published[m]})

\* views.py:279-283: completed ModuleCompletion rows of the student
ProfileCompletedModules(s) ==
    Cardinality({r \in completions :
                   /\ r.student = s
                   /\ module_course[r.module] \in EnrolledActive(s)
                   /\ r.completed})

\* views.py:270-293: the page of student s
ProfileContext(s) ==
    [page |-> "student_profile", student |-> s,
     total_modules |-> ProfileTotalModules(s),
     completed_modules |-> ProfileCompletedModules(s),
     certificates |-> {r.pk : r \in {x \in certificates : x.student = s}}]

\* the id as it stands in the requested path, "none" on /profile/
ProfilePath(pid) == IF pid = NoId THEN "none" ELSE <<"0", "1", "2", "3">>[pid + 1]

ProfileResp(by, pid, kind) ==
    Resp("student_profile", by, ProfilePath(pid), kind)

\* student_profile (views.py:253-294): pid is profile_id, NoId on /profile/
student_profile(by, pid) ==
    /\ UNCHANGED <<sessions, is_verified, enrolled_courses, is_published,
                   admin_completed, completions, certificates, files,
                   resource_active, today, req, accounts, verified_at,
                   catalogue>>
    /\ IF by = Anon
       THEN /\ response' = ProfileResp(by, pid, "redirect_login")
            /\ UNCHANGED context
       ELSE IF Truthy(pid)
       THEN IF ~ is_staff(by)
            THEN /\ response' = ProfileResp(by, pid, "redirect_dashboard")
                 /\ UNCHANGED context
            ELSE IF ~ \E p \in profiles : p.id = pid
            THEN /\ response' = ProfileResp(by, pid, "not_found")
                 /\ UNCHANGED context
            ELSE /\ response' = ProfileResp(by, pid, "render")
                 /\ context' =
                      ProfileContext((CHOOSE p \in profiles : p.id = pid).user)
       ELSE IF ~ HasProfile(by)
       THEN /\ response' = ProfileResp(by, pid, "redirect_home")
            /\ UNCHANGED context
       ELSE /\ response' = ProfileResp(by, pid, "render")
            /\ context' = ProfileContext(by)

(***************************************************************************)
(* Further administrative actions (admin.py)                               *)
(***************************************************************************)
\* ModuleAdmin change form: is_published and admin_completed (admin.py:321-323)
set_module_flags(m, published, done) ==
    /\ is_published' = [is_published EXCEPT ![m] = published]
    /\ admin_completed' = [admin_completed EXCEPT ![m] = done]
    /\ UNCHANGED <<sessions, is_verified, enrolled_courses, completions,
                   certificates, files, resource_active, today, req, response,
                   accounts, verified_at, context, catalogue>>

\* CourseAdmin change form: is_active (admin.py:268-270)
set_course_active(c, b) ==
    /\ course_active' = [course_active EXCEPT ![c] = b]
    /\ UNCHANGED <<sessions, is_verified, enrolled_courses, is_published,
                   admin_completed, completions, certificates, files,
                   resource_active, today, req, response, accounts, verified_at,
                   context, student_batch, announcement_tbl, site_config,
                   site_seq>>

(***************************************************************************)
(* A request that dies part-way                                            *)
(***************************************************************************)
\* the process serving generate_certificate stops after get_or_create has
\* returned and before the response is sent: what it wrote stays, the rest
\* of the handler never runs
generate_certificate_interrupted(w) ==
    /\ req[w].pc \in {"number", "pdf"}
    /\ req' = [req EXCEPT ![w] = IdleReq]
    /\ response' = Resp("generate_certificate", req[w].by, req[w].course,
                        "interrupted")
    /\ UNCHANGED <<sessions, is_verified, enrolled_courses, is_published,
                   admin_completed, completions, certificates, files,
                   resource_active, today, accounts, verified_at, context,
                   catalogue>>

(***************************************************************************)
(* SiteConfiguration (models.py:293-322)                                   *)
(***************************************************************************)
\* instance.pk of an instance that was never saved
NoPk == 0
SiteNames == {"Premier Medical And Technical Institute", "Institute", "College"}

\* models.py:314: "if not self.pk and SiteConfiguration.objects.exists()"
SiteGuardBlocks(pk) == pk = NoPk /\ site_config # {}

\* the id sequence after an INSERT that names its own id: whether the
\* sequence moves past that id depends on the database
SeqAfterExplicit(pk) == {site_seq} \cup {IF pk >= site_seq THEN pk + 1 ELSE site_seq}

\* super().save() with the primary key set: UPDATE, or INSERT when no row
\* has that key
SiteUpsert(pk, name) ==
    /\ site_config' = {r \in site_config : r.pk # pk}
                         \cup {[pk |-> pk, site_name |-> name]}
    /\ site_seq' \in SeqAfterExplicit(pk)

\* SiteConfiguration.save (models.py:312-317) of an instance whose pk is pk
site_save(pk, name) ==
    /\ pk = NoPk \/ \E r \in site_config : r.pk = pk
    /\ UNCHANGED <<sessions, is_verified, enrolled_courses, is_published,
                   admin_completed, completions, certificates, files,
                   resource_active, today, req, accounts, verified_at, context,
                   course_active, student_batch, announcement_tbl>>
    /\ IF SiteGuardBlocks(pk)
       THEN /\ response' = Resp("site_save", Staff, "new", "skipped")
            /\ UNCHANGED <<site_config, site_seq>>
       ELSE IF pk = NoPk
       THEN /\ site_seq <= MaxSitePk
            /\ site_config' = site_config
                                \cup {[pk |-> site_seq, site_name |-> name]}
            /\ site_seq' = site_seq + 1
            /\ response' = Resp("site_save", Staff, "new", "saved")
       ELSE /\ SiteUpsert(pk, name)
            /\ response' = Resp("site_save", Staff, "existing", "saved")

\* Model.delete of a row
site_delete(pk) ==
    /\ \E r \in site_config : r.pk = pk
    /\ site_config' = {r \in site_config : r.pk # pk}
    /\ response' = Resp("site_delete", Staff, "existing", "deleted")
    /\ UNCHANGED <<sessions, is_verified, enrolled_courses, is_published,
                   admin_completed, completions, certificates, files,
                   resource_active, today, req, accounts, verified_at, context,
                   course_active, student_batch, announcement_tbl, site_seq>>

\* SiteConfiguration.get_solo (models.py:319-322): get_or_create(pk=1); the
\* instance it creates has its pk set when save() runs
get_solo ==
    /\ UNCHANGED <<sessions, is_verified, enrolled_courses, is_published,
                   admin_completed, completions, certificates, files,
                   resource_active, today, req, accounts, verified_at, context,
                   course_active, student_batch, announcement_tbl>>
    /\ response' = Resp("get_solo", Anon, "none", "returned")
    /\ IF \E r \in site_config : r.pk = 1
       THEN UNCHANGED <<site_config, site_seq>>
       ELSE IF SiteGuardBlocks(1)
       THEN UNCHANGED <<site_config, site_seq>>
       ELSE SiteUpsert(1, "Premier Medical And Technical Institute")

(***************************************************************************)
(* Specifications                                                          *)
(***************************************************************************)
\* no SiteConfiguration row yet
InitSite ==
    /\ site_config = {}
    /\ site_seq = 1

\* the accounts and catalogue of a populated site
InitPopulated ==
    /\ users = AllUsers
    /\ profiles = AllProfiles
    /\ reg = [k \in Registrars |-> IdleReg]
    /\ verified_at = [s \in Students |-> IF is_verified[s] THEN 0 ELSE NoDate]
    /\ context = NoContext
    /\ course_active = [c \in Courses |-> TRUE]
    /\ student_batch = [s \in Students |-> "b1"]
    /\ announcement_tbl = {}
    /\ InitSite

\* every course module published and admin-completed, no requests made yet
InitEmpty ==
    /\ sessions = {}
    /\ is_verified = [s \in Students |-> FALSE]
    /\ enrolled_courses = [s \in Students |-> {}]
    /\ is_published = [m \in Modules |-> TRUE]
    /\ admin_completed = [m \in Modules |-> TRUE]
    /\ completions = {}
    /\ certificates = {}
    /\ files = 0
    /\ resource_active = [r \in Resources |-> TRUE]
    /\ today = 0
    /\ req = [w \in Workers |-> IdleReq]
    /\ response = NoResponse
    /\ InitPopulated

\* Eligibility: one student, the modules of course c1 in every combination of
\* flags, module views and completion marks, one request at a time
InitElig ==
    /\ sessions = Users
    /\ is_verified = [s \in Students |-> TRUE]
    /\ enrolled_courses \in {e \in [Students -> SUBSET Courses] :
                               e["s1"] \subseteq {"c1"} /\ e["s2"] = {}}
    /\ is_published \in {f \in [Modules -> BOOLEAN] : ~ f["m3"]}
    /\ admin_completed \in {f \in [Modules -> BOOLEAN] : ~ f["m3"]}
    /\ completions = {}
    /\ certificates = {}
    /\ files = 0
    /\ resource_active = [r \in Resources |-> TRUE]
    /\ today = 0
    /\ req = [w \in Workers |-> IdleReq]
    /\ response = NoResponse
    /\ InitPopulated

NextElig ==
    \/ \E by \in {"s1", Staff, Anon} : generate_certificate_check("w1", by, "c1")
    \/ generate_certificate_create("w1")
    \/ generate_certificate_assign("w1")
    \/ generate_certificate_pdf("w1")
    \/ \E m \in {"m1", "m2"} : module_detail("s1", m)
    \/ \E row \in completions : mark_complete(row)

SpecElig == InitElig /\ [][NextElig]_vars

\* Certificates: two students who have completed every module, concurrent
\* requests, the calendar advancing
InitCert ==
    /\ sessions = Users
    /\ is_verified = [s \in Students |-> TRUE]
    /\ enrolled_courses = [s \in Students |-> IF s = "s1" THEN Courses ELSE {"c1"}]
    /\ is_published = [m \in Modules |-> TRUE]
    /\ admin_completed = [m \in Modules |-> TRUE]
    /\ completions = {[pk |-> <<s, m, 0>>, student |-> s, module |-> m,
                       completed |-> TRUE] : s \in Students, m \in Modules}
    /\ certificates = {}
    /\ files = 0
    /\ resource_active = [r \in Resources |-> TRUE]
    /\ today = 0
    /\ req = [w \in Workers |-> IdleReq]
    /\ response = NoResponse
    /\ InitPopulated

NextCert ==
    \/ \E w \in Workers, by \in Students, c \in Courses :
          generate_certificate_check(w, by, c)
    \/ \E w \in Workers : generate_certificate_create(w)
    \/ \E w \in Workers : generate_certificate_assign(w)
    \/ \E w \in Workers : generate_certificate_pdf(w)
    \/ Tick

SpecCert == InitCert /\ [][NextCert]_vars

\* Sessions: logins, logouts and the administrator's verify and unverify
InitLogin ==
    /\ InitEmpty

NextLogin ==
    \/ \E by \in Requesters, u \in Users, creds \in BOOLEAN : student_login(by, u, creds)
    \/ \E by \in Requesters : student_logout(by)
    \/ \E queryset \in SUBSET Students : verify_users(queryset)
    \/ \E queryset \in SUBSET Students : unverify_users(queryset)

SpecLogin == InitLogin /\ [][NextLogin]_vars

\* Resource delivery: every account signed in, the administrator changing
\* enrolments and resource flags between downloads
InitResource ==
    /\ sessions = Users
    /\ is_verified = [s \in Students |-> TRUE]
    /\ enrolled_courses = [s \in Students |-> {}]
    /\ is_published = [m \in Modules |-> TRUE]
    /\ admin_completed = [m \in Modules |-> TRUE]
    /\ completions = {}
    /\ certificates = {}
    /\ files = 0
    /\ resource_active = [r \in Resources |-> TRUE]
    /\ today = 0
    /\ req = [w \in Workers |-> IdleReq]
    /\ response = NoResponse
    /\ InitPopulated

NextResource ==
    \/ \E by \in Requesters, rid \in ResourceIds, readable \in BOOLEAN :
          download_resource(by, rid, readable)
    \/ \E s \in Students, cs \in SUBSET Courses : set_enrolled_courses(s, cs)
    \/ \E r \in Resources, b \in BOOLEAN : set_resource_active(r, b)

SpecResource == InitResource /\ [][NextResource]_vars

\* Access to content: students signing in and out and reading module m1 and
\* resource r1 while the administrator verifies, unverifies and enrols them
InitAccess ==
    /\ InitEmpty

NextAccess ==
    \/ \E by \in Requesters, u \in Students, creds \in BOOLEAN :
          student_login(by, u, creds)
    \/ \E by \in Requesters : student_logout(by)
    \/ \E s \in Students : verify_users({s})
    \/ \E s \in Students : unverify_users({s})
    \/ \E s \in Students, cs \in SUBSET {"c1"} : set_enrolled_courses(s, cs)
    \/ \E by \in Requesters : module_detail(by, "m1")
    \/ \E by \in Requesters, readable \in BOOLEAN :
          download_resource(by, "r1", readable)

SpecAccess == InitAccess /\ [][NextAccess]_vars

\* Module pages: everyone signed in, modules m1 and m3 requested while the
\* administrator changes enrolments and the flags of m1
InitModule ==
    /\ InitResource

NextModule ==
    \/ \E by \in Requesters, m \in {"m1", "m3"} : module_detail(by, m)
    \/ \E s \in Students, cs \in SUBSET Courses : set_enrolled_courses(s, cs)
    \/ \E published \in BOOLEAN : set_module_flags("m1", published, TRUE)
    \/ \E row \in completions : mark_complete(row)

SpecModule == InitModule /\ [][NextModule]_vars

\* Registration: an empty student table, the staff account signed in through
\* the admin site, two registration requests at a time, the administrator
\* verifying and unverifying the profiles that exist, verified students
\* signing in
InitRegister ==
    /\ sessions = {Staff}
    /\ is_verified = [s \in Students |-> FALSE]
    /\ enrolled_courses = [s \in Students |-> {}]
    /\ is_published = [m \in Modules |-> TRUE]
    /\ admin_completed = [m \in Modules |-> TRUE]
    /\ completions = {}
    /\ certificates = {}
    /\ files = 0
    /\ resource_active = [r \in Resources |-> TRUE]
    /\ today = 0
    /\ req = [w \in Workers |-> IdleReq]
    /\ response = NoResponse
    /\ users = {[username |-> Staff, email |-> "A@x.org"]}
    /\ profiles = {}
    /\ reg = [k \in Registrars |-> IdleReg]
    /\ verified_at = [s \in Students |-> NoDate]
    /\ context = NoContext
    /\ course_active = [c \in Courses |-> TRUE]
    /\ student_batch = [s \in Students |-> NoBatch]
    /\ announcement_tbl = {}
    /\ InitSite

NextRegister ==
    \/ \E k \in Registrars, by \in Requesters, u \in Users, sid \in StudentIds,
          email \in Emails : student_register(k, by, u, sid, email, "b1")
    \/ \E k \in Registrars : student_register_save_user(k)
    \/ \E k \in Registrars : student_register_create_profile(k)
    \/ \E s \in Students : verify_users({s})
    \/ \E s \in Students : unverify_users({s})
    \/ \E u \in Students : student_login(Anon, u, TRUE)

SpecRegister == InitRegister /\ [][NextRegister]_vars

\* Student-facing requests only: student s1 registered, verified and done
\* with course c1, s2 not yet registered, nobody at the admin site
InitStudent ==
    /\ sessions = {Staff}
    /\ is_verified = [s \in Students |-> s = "s1"]
    /\ enrolled_courses \in {e \in [Students -> SUBSET Courses] : e["s2"] = {}}
    /\ is_published = [m \in Modules |-> TRUE]
    /\ admin_completed = [m \in Modules |-> TRUE]
    /\ completions = {[pk |-> <<"s1", m, 0>>, student |-> "s1", module |-> m,
                       completed |-> TRUE] : m \in {"m1", "m2"}}
    /\ certificates = {}
    /\ files = 0
    /\ resource_active = [r \in Resources |-> TRUE]
    /\ today = 0
    /\ req = [w \in Workers |-> IdleReq]
    /\ response = NoResponse
    /\ users = {x \in AllUsers : x.username # "s2"}
    /\ profiles = {p \in AllProfiles : p.user = "s1"}
    /\ reg = [k \in Registrars |-> IdleReg]
    /\ verified_at = [s \in Students |-> IF s = "s1" THEN 0 ELSE NoDate]
    /\ context = NoContext
    /\ course_active = [c \in Courses |-> TRUE]
    /\ student_batch = [s \in Students |-> IF s = "s1" THEN "b1" ELSE NoBatch]
    /\ announcement_tbl = {}
    /\ InitSite

NextStudent ==
    \/ \E by \in Requesters, sid \in StudentIds :
          student_register("k1", by, "s2", sid, "", "b1")
    \/ student_register_save_user("k1")
    \/ student_register_create_profile("k1")
    \/ \E by \in Requesters, u \in Students : student_login(by, u, TRUE)
    \/ \E by \in Requesters : student_logout(by)
    \/ \E by \in Requesters : dashboard(by)
    \/ \E by \in Requesters : course_detail(by, "c1")
    \/ \E by \in Requesters : course_list(by)
    \/ \E by \in Requesters : module_detail(by, "m3")
    \/ \E by \in Requesters : download_resource(by, "r1", TRUE)
    \/ \E by \in Requesters : student_profile(by, NoId)
    \/ \E by \in Requesters : announcements(by)
    \/ \E by \in Requesters : generate_certificate_check("w1", by, "c1")
    \/ generate_certificate_create("w1")
    \/ generate_certificate_assign("w1")
    \/ generate_certificate_pdf("w1")

SpecStudent == InitStudent /\ [][NextStudent]_vars

\* Pages: everyone signed in, s1 holding a certificate of course c1, the
\* course, dashboard and profile pages requested while the administrator
\* changes enrolments, module flags and the course's is_active
InitPages ==
    /\ sessions = Users
    /\ is_verified = [s \in Students |-> TRUE]
    /\ enrolled_courses = [s \in Students |-> IF s = "s1" THEN {"c1"} ELSE {}]
    /\ is_published = [m \in Modules |-> TRUE]
    /\ admin_completed = [m \in Modules |-> TRUE]
    /\ completions = {[pk |-> <<"s1", m, 0>>, student |-> "s1", module |-> m,
                       completed |-> TRUE] : m \in {"m1", "m2"}}
    /\ certificates = {[pk |-> <<"s1", "c1", 0>>, student |-> "s1",
                        course |-> "c1",
                        certificate_number |-> <<"NCC", YearOf(0), student_id["s1"]>>,
                        issue_date |-> 0, pdf_file |-> 1]}
    /\ files = 1
    /\ resource_active = [r \in Resources |-> TRUE]
    /\ today = 0
    /\ req = [w \in Workers |-> IdleReq]
    /\ response = NoResponse
    /\ InitPopulated

NextPages ==
    \/ \E by \in Requesters : course_detail(by, "c1")
    \/ \E by \in Requesters : dashboard(by)
    \/ \E by \in Requesters, pid \in ProfileIds \cup {NoId} : student_profile(by, pid)
    \/ \E cs \in SUBSET {"c1"} : set_enrolled_courses("s1", cs)
    \/ \E published, done \in BOOLEAN : set_module_flags("m1", published, done)
    \/ \E b \in BOOLEAN : set_course_active("c1", b)

SpecPages == InitPages /\ [][NextPages]_vars

\* Announcements: six announcements created one after the other, each of one
\* of the kinds below, student s1 with or without a batch
AnnouncementIds == 1 .. 6
AnnouncementKinds ==
    {[batch |-> "b1", is_global |-> FALSE, is_active |-> TRUE],
     [batch |-> "b2", is_global |-> FALSE, is_active |-> TRUE],
     [batch |-> NoBatch, is_global |-> FALSE, is_active |-> TRUE],
     [batch |-> NoBatch, is_global |-> TRUE, is_active |-> TRUE],
     [batch |-> NoBatch, is_global |-> TRUE, is_active |-> FALSE]}

InitAnnounce ==
    /\ sessions = Users
    /\ is_verified = [s \in Students |-> TRUE]
    /\ enrolled_courses = [s \in Students |-> {}]
    /\ is_published = [m \in Modules |-> TRUE]
    /\ admin_completed = [m \in Modules |-> TRUE]
    /\ completions = {}
    /\ certificates = {}
    /\ files = 0
    /\ resource_active = [r \in Resources |-> TRUE]
    /\ today = 0
    /\ req = [w \in Workers |-> IdleReq]
    /\ response = NoResponse
    /\ users = AllUsers
    /\ profiles = AllProfiles
    /\ reg = [k \in Registrars |-> IdleReg]
    /\ verified_at = [s \in Students |-> 0]
    /\ context = NoContext
    /\ course_active = [c \in Courses |-> TRUE]
    /\ student_batch \in {b \in [Students -> Batches \cup {NoBatch}] :
                            b["s2"] = "b1" /\ b["s1"] # "b2"}
    /\ \E kind \in [AnnouncementIds -> AnnouncementKinds] :
          announcement_tbl =
             {[id |-> i, batch |-> kind[i].batch, is_global |-> kind[i].is_global,
               is_active |-> kind[i].is_active, created_at |-> i] :
                i \in AnnouncementIds}
    /\ InitSite

NextAnnounce ==
    \/ \E by \in {"s1", Anon} : dashboard(by)
    \/ \E by \in {"s1", Anon} : announcements(by)

SpecAnnounce == InitAnnounce /\ [][NextAnnounce]_vars

\* Interrupted generation: students who have completed every module, one
\* request at a time, a request that may die after get_or_create, the
\* calendar advancing
InitCrash ==
    /\ InitCert

NextCrash ==
    \/ \E by \in Students, c \in Courses : generate_certificate_check("w1", by, c)
    \/ generate_certificate_create("w1")
    \/ generate_certificate_assign("w1")
    \/ generate_certificate_pdf("w1")
    \/ generate_certificate_interrupted("w1")
    \/ Tick

SpecCrash == InitCrash /\ [][NextCrash]_vars

\* Site configuration: saves of new and of loaded instances, deletes and
\* get_solo calls
InitSiteConfig ==
    /\ InitEmpty

NextSiteConfig ==
    \/ \E name \in SiteNames : site_save(NoPk, name)
    \/ \E pk \in 1 .. MaxSitePk, name \in SiteNames : site_save(pk, name)
    \/ \E pk \in 1 .. MaxSitePk : site_delete(pk)
    \/ get_solo

SpecSiteConfig == InitSiteConfig /\ [][NextSiteConfig]_vars

\* Issuing certificates: the requests of SpecElig, and the administrator
\* adding certificates of course c1 through the admin site
InitIssue ==
    /\ InitElig

NextIssue ==
    \/ \E by \in {"s1", Staff, Anon} : generate_certificate_check("w1", by, "c1")
    \/ generate_certificate_create("w1")
    \/ generate_certificate_assign("w1")
    \/ generate_certificate_pdf("w1")
    \/ \E m \in {"m1", "m2"} : module_detail("s1", m)
    \/ \E row \in completions : mark_complete(row)
    \/ \E s \in Students : save_model(s, "c1")

SpecIssue == InitIssue /\ [][NextIssue]_vars

\* Two courses: student s1, enrolled in both courses and done with every
\* module, asking for certificates one request at a time while the calendar
\* advances
InitTwoCourses ==
    /\ InitCert

NextTwoCourses ==
    \/ \E c \in Courses : generate_certificate_check("w1", "s1", c)
    \/ generate_certificate_create("w1")
    \/ generate_certificate_assign("w1")
    \/ generate_certificate_pdf("w1")
    \/ Tick

SpecTwoCourses == InitTwoCourses /\ [][NextTwoCourses]_vars

(***************************************************************************)
(* Properties                                                              *)
(***************************************************************************)
\* eligibility as the claims state it: the course has a published module and
\* every published module is admin-completed
AdminEligible(c) ==
    /\ \E m \in Modules : module_course[m] = c /\ is_published[m]
    /\ \A m \in Modules :
          (module_course[m] = c /\ is_published[m]) => admin_completed[m]

SomePublishedNotCompleted(c) ==
    \E m \in Modules :
        module_course[m] = c /\ is_published[m] /\ ~ admin_completed[m]

GenerateResponse ==
    /\ response.op = "generate_certificate"
    /\ response.by \in Students
    /\ response.arg \in enrolled_courses[response.by]

\* C1: for an enrolled student a generate_certificate request returns the PDF
\* exactly when the course has a published module and every published module
\* is admin-completed (SpecElig keeps flags and enrolments fixed, so the
\* answer can be compared with the flags of the current state).
C1_SucceedsIffAdminEligible ==
    GenerateResponse =>
        /\ response.kind \in {"pdf", "redirect_course_detail"}
        /\ (response.kind = "pdf") <=> AdminEligible(response.arg)

\* C2: a step that changes nothing but ModuleCompletion rows leaves the
\* accept/reject decision of generate_certificate for every enrolled student
\* as it was.
C2_OutcomeIgnoresCompletionRows ==
    [][(/\ is_published' = is_published
        /\ admin_completed' = admin_completed
        /\ enrolled_courses' = enrolled_courses)
       => \A s \in Students : \A c \in enrolled_courses[s] :
              PassesCompletionCheck(s, c)' = PassesCompletionCheck(s, c)]_vars

\* C3: when some published module of the course is not admin-completed, the
\* request of an enrolled student is answered with the redirect to the course
\* page, never gets as far as the certificate, and no Certificate row exists
\* for such a course.
C3_IneligibleRejectedNothingCreated ==
    /\ (GenerateResponse /\ SomePublishedNotCompleted(response.arg))
          => response.kind = "redirect_course_detail"
    /\ \A w \in Workers :
          req[w].pc # "idle" => ~ SomePublishedNotCompleted(req[w].course)
    /\ \A r \in certificates : ~ SomePublishedNotCompleted(r.course)

\* C4: a login attempt naming a student whose profile is unverified leaves
\* the sessions as they were, and when an anonymous client submits correct
\* credentials the answer is the pending-verification redirect.
C4_UnverifiedLoginNoSession ==
    [][\A u \in Students :
          (/\ ~ is_verified[u]
           /\ response' # response
           /\ response'.op = "student_login"
           /\ response'.arg = u)
          => /\ sessions' = sessions
             /\ (response'.creds /\ response'.by = Anon)
                   => response'.kind = "pending_verification"]_vars

C4_Witness ==
    /\ response.op = "student_login"
    /\ response.creds
    /\ response.kind = "pending_verification"
    /\ response.arg \in Students
    /\ response.arg \notin sessions

\* C5: under every interleaving of generate_certificate requests there is at
\* most one Certificate row per student and course.
C5_OneCertificatePerPair ==
    \A s \in Students, c \in Courses : Cardinality(CertRows(s, c)) <= 1

\* two concurrent requests for the same pair both hold the one row
C5_Witness ==
    \E w1, w2 \in Workers :
        /\ w1 # w2
        /\ req[w1].pc \in {"number", "pdf"}
        /\ req[w2].pc \in {"number", "pdf"}
        /\ req[w1].obj.pk = req[w2].obj.pk
        /\ Cardinality(CertRows(req[w1].by, req[w1].course)) = 1

C7_NumbersUnique ==
    \A r1, r2 \in certificates :
        r1 # r2 => r1.certificate_number # r2.certificate_number

\* a second certificate of the same student was refused the first one's number
C7_Witness ==
    \E r1, r2 \in certificates :
        /\ r1.student = r2.student
        /\ r1.course # r2.course
        /\ r1.certificate_number # EmptyNumber
        /\ r2.certificate_number = EmptyNumber
        /\ response.kind = "server_error"
        /\ response.arg = r2.course

\* C8: the number a row receives when it had none is NCC, the year of the
\* day it is assigned on, and the student's registration number.
C8_NumberFormat ==
    [][\A r2 \in certificates' :
          (/\ r2.certificate_number # EmptyNumber
           /\ \A r \in certificates :
                 r.pk = r2.pk => r.certificate_number = EmptyNumber)
          => r2.certificate_number =
                <<"NCC", YearOf(today), student_id[r2.student]>>]_vars

\* a row created in one year and numbered in the next carries the later year
C8_Witness ==
    \E r \in certificates :
        /\ r.certificate_number # EmptyNumber
        /\ r.certificate_number[2] # YearOf(r.issue_date)

DownloadStep ==
    /\ response' # response
    /\ response'.op = "download_resource"
    /\ response'.by \in Students

MayDownload(s, rid) ==
    /\ rid \in Resources
    /\ resource_active[rid]
    /\ resource_course[rid] \in enrolled_courses[s]

\* C9: a download request of a student is answered with the file only if the
\* student is then enrolled in the resource's course and the resource is
\* active, and with not-found in every other case.
C9_DownloadOnlyEnrolledActive ==
    [][DownloadStep =>
          /\ response'.kind = "file" => MayDownload(response'.by, response'.arg)
          /\ ~ MayDownload(response'.by, response'.arg)
                => response'.kind = "not_found"]_vars

C9_Witness ==
    /\ response.op = "download_resource"
    /\ response.by \in Students
    /\ response.kind = "file"
    /\ MayDownload(response.by, response.arg)

\* C10: for a student not enrolled in the course of an existing active
\* resource the answer is the one given for an id that does not exist and for
\* an inactive resource.
C10_NotEnrolledIndistinguishable ==
    \A s \in Students, r \in Resources, readable \in BOOLEAN :
        (resource_active[r] /\ resource_course[r] \notin enrolled_courses[s])
        => /\ DownloadKind(s, r, readable) = DownloadKind(s, NoResource, readable)
           /\ \A r2 \in Resources :
                 ~ resource_active[r2]
                 => DownloadKind(s, r, readable) = DownloadKind(s, r2, readable)
           /\ DownloadKind(s, r, readable) = "not_found"

C10_Witness ==
    /\ response.op = "download_resource"
    /\ response.by \in Students
    /\ response.arg \in Resources
    /\ resource_active[response.arg]
    /\ resource_course[response.arg] \notin enrolled_courses[response.by]
    /\ response.kind = "not_found"
    /\ \E r2 \in Resources : ~ resource_active[r2]

\* the course whose content a module_detail or download_resource answer is about
ContentCourse(r) ==
    IF r.op = "module_detail" THEN module_course[r.arg] ELSE resource_course[r.arg]

\* C11: whenever module_detail renders a module or download_resource sends a
\* file, the requesting account is at that moment signed in, verified
\* (is_verified = true) and enrolled in the course of the module or resource.
C11_ContentOnlyVerifiedEnrolled ==
    [][(/\ response' # response
        /\ response'.op \in {"module_detail", "download_resource"}
        /\ response'.kind \in {"render", "file"})
       => /\ response'.by \in sessions
          /\ response'.by \in Students
          /\ is_verified[response'.by]
          /\ ContentCourse(response') \in enrolled_courses[response'.by]]_vars

\* C12: no step leaves two ModuleCompletion rows for one (student, module);
\* a module_detail request of a student for a published module, when the
\* student is enrolled in the module's course, renders the page and leaves
\* exactly one row for the pair, created with completed = false if there was
\* none and the table untouched if there was one; when the student is not
\* enrolled it is redirected to the dashboard and the table is untouched.
C12_ViewCreatesOneRow ==
    [][\A s \in Students, m \in Modules :
          /\ Cardinality(CompletionRows(s, m)') <= 1
          /\ (/\ response' # response
              /\ response'.op = "module_detail"
              /\ response'.by = s
              /\ response'.arg = m
              /\ is_published[m])
             => IF module_course[m] \in enrolled_courses[s]
                THEN /\ response'.kind = "render"
                     /\ Cardinality(CompletionRows(s, m)') = 1
                     /\ CompletionRows(s, m) = {}
                           => \A r \in CompletionRows(s, m)' : ~ r.completed
                     /\ CompletionRows(s, m) # {} => completions' = completions
                ELSE /\ response'.kind = "redirect_dashboard"
                     /\ completions' = completions]_vars

\* an enrolled student has viewed a published module and holds the one row
\* the view created
C12_Witness ==
    /\ response.op = "module_detail"
    /\ response.kind = "render"
    /\ response.by \in Students
    /\ is_published[response.arg]
    /\ Cardinality(CompletionRows(response.by, response.arg)) = 1
    /\ \A r \in CompletionRows(response.by, response.arg) : ~ r.completed

\* the submitted student_id or non-empty email is already taken
DuplicateSubmitted(sid, email) ==
    \/ \E p \in profiles : p.student_id = sid
    \/ email # "" /\ \E x \in users : Lower(x.email) = Lower(email)

\* no student_register request is in progress
NoRegistrationInFlight == \A k \in Registrars : reg[k].pc = "idle"

\* C14: a registration is accepted by the form only when neither its
\* student_id nor its non-empty email (compared case-insensitively) is taken,
\* a rejected one leaves the User and StudentProfile tables as they were, and
\* once the registration requests have run to their end every User they
\* created has exactly one StudentProfile and no two profiles share a
\* student_id.
C14_RegistrationAllOrNothing ==
    /\ [][/\ \A k \in Registrars :
               (reg[k].pc = "idle" /\ reg'[k].pc = "save_user")
               => ~ DuplicateSubmitted(reg'[k].student_id, reg'[k].email)
          /\ (response' # response /\ response'.op = "student_register"
                 /\ response'.kind = "form_errors")
             => users' = users /\ profiles' = profiles]_vars
    /\ [](NoRegistrationInFlight =>
            /\ \A x \in users :
                  x.username \in Students
                  => Cardinality({p \in profiles : p.user = x.username}) = 1
            /\ \A p, q \in profiles : p.student_id = q.student_id => p = q)

\* C15: a profile created by registration starts with is_verified = false and
\* verified_at unset, and in every state reached by registrations, verify_users
\* and unverify_users each profile has is_verified = true exactly when its
\* verified_at is set.
C15_VerifiedIffTimestamp ==
    /\ [][\A p \in profiles' \ profiles :
             ~ is_verified'[p.user] /\ verified_at'[p.user] = NoDate]_vars
    /\ [](\A p \in profiles :
             is_verified[p.user] <=> verified_at[p.user] # NoDate)

\* a registered profile has been verified, another registered and not
C15_Witness ==
    \E p, q \in profiles :
        /\ is_verified[p.user] /\ verified_at[p.user] # NoDate
        /\ ~ is_verified[q.user] /\ verified_at[q.user] = NoDate

\* C13: no step of a student-facing request (register, login, logout,
\* dashboard, course, module, resource, profile, certificate, announcement
\* endpoints) changes any student's enrolled_courses, and a profile created by
\* registration has no enrolled courses.
C13_EnrolmentNotSelfService ==
    [][/\ enrolled_courses' = enrolled_courses
       /\ \A p \in profiles' \ profiles : enrolled_courses'[p.user] = {}]_vars

\* s2 has registered and has no course, s1 has fetched a certificate of a
\* course assigned earlier
C13_Witness ==
    /\ \E p \in profiles : p.user = "s2"
    /\ enrolled_courses["s2"] = {}
    /\ "c1" \in enrolled_courses["s1"]
    /\ response.op = "generate_certificate"
    /\ response.kind = "pdf"

\* the step is the answer of the handler op (a repeated identical answer is
\* a step that changes nothing and is not seen)
PageStep(op) ==
    /\ response'.op = op
    /\ response.op # op \/ response' # response \/ context' # context

\* C16: when course_detail renders a course for a requester who is anonymous
\* or is not enrolled in that course, completed_module_ids is empty and no
\* certificate is passed to the page.
C16_GatedFieldsOnlyEnrolled ==
    [][(PageStep("course_detail") /\ response'.kind = "render")
       => LET by == response'.by
              enrolled == /\ by \in sessions
                          /\ by \in Students
                          /\ response'.arg \in enrolled_courses[by]
          IN ~ enrolled => /\ context'.completed_module_ids = {}
                           /\ context'.certificate = NoObject.pk]_vars

\* the counts of the completion tracker over the student's enrolled active
\* courses: published modules, and published modules that are admin-completed
TrackerTotal(s) ==
    Cardinality({m \in Modules : /\ module_course[m] \in enrolled_courses[s]
                                 /\ course_active[module_course[m]]
                                 /\ is_published[m]})

TrackerCompleted(s) ==
    Cardinality({m \in Modules : /\ module_course[m] \in enrolled_courses[s]
                                 /\ course_active[module_course[m]]
                                 /\ is_published[m]
                                 /\ admin_completed[m]})

\* C17: the completed count on the dashboard and on the profile page is the
\* number of published, admin-completed modules of the student's courses, the
\* total on the profile page is the number of published modules and is never
\* below the completed count, and course_detail lists the published modules
\* and, for a student, marks the published admin-completed ones.
C17_CountsFollowAdminFlags ==
    [][/\ (PageStep("dashboard") /\ response'.kind = "render")
          => context'.completed_modules = TrackerCompleted(context'.student)
       /\ (PageStep("student_profile") /\ response'.kind = "render")
          => /\ context'.total_modules = TrackerTotal(context'.student)
             /\ context'.completed_modules = TrackerCompleted(context'.student)
             /\ context'.completed_modules <= context'.total_modules
       /\ (PageStep("course_detail") /\ response'.kind = "render"
              /\ response'.by \in Students)
          => /\ context'.modules =
                   {m \in Modules : module_course[m] = response'.arg
                                    /\ is_published[m]}
             /\ context'.completed_module_ids =
                   {m \in Modules : /\ module_course[m] = response'.arg
                                    /\ is_published[m]
                                    /\ admin_completed[m]}]_vars

\* C19 as stated: student_profile renders the profile of a student other than
\* the requester only for the staff account, and a signed-in requester who is
\* not staff and supplies any profile_id is redirected to the dashboard.
C19_AnyProfileIdRedirected ==
    [][PageStep("student_profile")
       => /\ (response'.kind = "render" /\ context'.student # response'.by)
                => response'.by = Staff
          /\ (response'.by \in Students /\ response'.arg # "none")
                => response'.kind = "redirect_dashboard"]_vars

\* C19: student_profile renders the profile of a student other than the
\* requester only for the staff account; a signed-in requester who is not
\* staff and supplies a non-zero profile_id is redirected to the dashboard
\* (permission denied), and the only page such a requester is rendered is
\* their own profile, through the id-less route or through profile_id 0,
\* which the handler treats as no id.
C19_OtherProfileStaffOnly ==
    [][PageStep("student_profile")
       => /\ (response'.kind = "render" /\ context'.student # response'.by)
                => response'.by = Staff
          /\ (response'.by \in Students /\ response'.arg \notin {"none", "0"})
                => response'.kind = "redirect_dashboard"
          /\ (response'.by \in Students /\ response'.kind = "render")
                => /\ response'.arg \in {"none", "0"}
                   /\ context'.student = response'.by]_vars

\* a student has asked for the other student's profile and been sent to the
\* dashboard
C19_Witness ==
    /\ response.op = "student_profile"
    /\ response.by = "s1"
    /\ response.arg = "2"
    /\ response.kind = "redirect_dashboard"

\* the announcements student s may see: active, and global or of s's batch
AllowedAnnouncements(s) ==
    {a \in announcement_tbl :
        /\ a.is_active
        /\ a.is_global \/ (student_batch[s] # NoBatch /\ a.batch = student_batch[s])}

\* C18: every announcement the dashboard or the announcements list shows to a
\* student, with or without a batch, is active and is global or belongs to
\* the student's batch; the dashboard shows at most 5, and none that is older
\* than one it leaves out.
C18_AnnouncementsOfOwnBatch ==
    [][((PageStep("dashboard") \/ PageStep("announcements"))
           /\ response'.kind = "render")
       => LET s == response'.by
              shown == context'.announcements
              allowed == AllowedAnnouncements(s)
          IN /\ \A i \in shown : \E a \in allowed : a.id = i
             /\ response'.op = "dashboard"
                   => /\ Cardinality(shown) <= 5
                      /\ \A a, b \in allowed :
                            (a.id \in shown /\ b.id \notin shown)
                            => b.created_at < a.created_at]_vars

\* C20: when the generate_certificate request that follows an interrupted
\* one, by the same eligible student for the same course, comes to its end,
\* it ends with the PDF, and the pair then has exactly one row, with a
\* certificate number and a stored file.
C20_InterruptedGenerationRecovers ==
    [][\A w \in Workers :
          (/\ response.kind = "interrupted"
           /\ response.by = req[w].by
           /\ response.arg = req[w].course
           /\ req[w].pc \in {"number", "pdf"}
           /\ req'[w].pc = "idle"
           /\ response'.kind # "interrupted")
          => LET rows == {r \in certificates' : /\ r.student = req[w].by
                                               /\ r.course = req[w].course}
             IN /\ response'.kind = "pdf"
                /\ Cardinality(rows) = 1
                /\ \A r \in rows :
                      r.certificate_number # EmptyNumber /\ r.pdf_file # 0]_vars

\* C21: at most one SiteConfiguration row exists in every state, and a save
\* of a new instance while a row exists leaves the table as it was.
C21_SiteConfigurationSingleton ==
    /\ [](Cardinality(site_config) <= 1)
    /\ [][(/\ response' # response
           /\ response'.op = "site_save"
           /\ response'.arg = "new"
           /\ site_config # {})
          => site_config' = site_config]_vars

\* the endpoints behind @login_required that load request.user.student_profile
LoginRequiredOps == {"dashboard", "module_detail", "download_resource",
                     "student_profile", "generate_certificate", "announcements"}

\* the request just answered was made by a signed-in account without a
\* StudentProfile to one of those endpoints (student_profile: the own-profile
\* form, no profile id in the path)
NoProfileRequest ==
    /\ response' # response
    /\ response'.op \in LoginRequiredOps
    /\ response'.by # Anon
    /\ ~ HasProfile(response'.by)
    /\ response'.op = "student_profile" => response'.arg = "none"

\* C22: a signed-in account without a StudentProfile asking for dashboard,
\* module_detail, download_resource, its own profile, generate_certificate or
\* announcements is redirected to home, and the request creates no
\* ModuleCompletion row and no Certificate row.
C22_NoProfileRedirectedHome ==
    [][NoProfileRequest =>
         /\ response'.kind = "redirect_home"
         /\ completions' = completions
         /\ certificates' = certificates
         /\ req' = req]_vars

C22_Witness ==
    /\ response.op = "download_resource"
    /\ response.by = Staff
    /\ response.kind = "redirect_home"
    /\ ~ HasProfile(Staff)

\* C23: a request without an authenticated session to a login-required
\* endpoint is answered with a redirect to the login page; no page is
\* rendered and no state changes.
C23_AnonymousRedirectedToLogin ==
    [][(/\ response' # response
        /\ response'.op \in LoginRequiredOps
        /\ response'.by = Anon)
       => /\ response'.kind = "redirect_login"
          /\ UNCHANGED <<sessions, is_verified, enrolled_courses, is_published,
                         admin_completed, completions, certificates, files,
                         resource_active, today, req, accounts, verified_at,
                         context, catalogue>>]_vars

C23_Witness ==
    /\ response.op = "dashboard"
    /\ response.by = Anon
    /\ response.kind = "redirect_login"
    /\ sessions # {}

\* C24: a dashboard request by a signed-in user with a StudentProfile renders
\* the dashboard of that student, and the courses it lists are exactly the
\* student's enrolled courses that are active.
C24_DashboardListsEnrolledActive ==
    [][(/\ PageStep("dashboard")
        /\ response'.by # Anon
        /\ HasProfile(response'.by))
       => /\ response'.kind = "render"
          /\ context'.page = "dashboard"
          /\ context'.student = response'.by
          /\ context'.courses =
               {c \in Courses : /\ c \in enrolled_courses[response'.by]
                                /\ course_active[c]}]_vars

C24_Witness ==
    /\ response.op = "dashboard"
    /\ response.kind = "render"
    /\ context.page = "dashboard"
    /\ context.courses = {}
    /\ enrolled_courses[response.by] # {}
    /\ ~ course_active["c1"]

\* C25: every Certificate row, created by generate_certificate or through the
\* admin site, is created for a student who at that moment is enrolled in the
\* course, the course having a published module and every published module
\* being admin-completed.
C25_CertificatesOnlyForEligible ==
    [][\A r \in certificates' :
          (~ \E q \in certificates : q.pk = r.pk)
             => /\ r.course \in enrolled_courses[r.student]
                /\ AdminEligible(r.course)]_vars

\* the student of the request just answered already holds a certificate of
\* another course whose number carries the current year
SecondCourseSameYear ==
    /\ response' # response
    /\ response'.op = "generate_certificate"
    /\ response'.by \in Students
    /\ response'.kind \in {"pdf", "server_error"}
    /\ \E r \in certificates :
          /\ r.student = response'.by
          /\ r.course # response'.arg
          /\ r.certificate_number # EmptyNumber
          /\ r.certificate_number[2] = YearOf(today)

\* C26: a student enrolled in and eligible for two courses gets a certificate
\* for each: the request for the second course, made in the year of the
\* first, returns the PDF and leaves the student's rows with non-empty
\* numbers.
C26_SecondCourseSameYearSucceeds ==
    [][SecondCourseSameYear =>
         /\ response'.kind = "pdf"
         /\ \A r \in certificates' :
               r.student = response'.by => r.certificate_number # EmptyNumber]_vars

\* the request just answered was a student's first for any certificate, it
\* passed the enrolment and completion checks, and a request of another
\* student was in flight
ConcurrentFirstTime ==
    /\ response' # response
    /\ response'.op = "generate_certificate"
    /\ response'.by \in Students
    /\ response'.kind \in {"pdf", "server_error"}
    /\ \A r \in certificates :
          r.student = response'.by => r.course = response'.arg
    /\ \E w \in Workers :
          /\ req[w].pc # "idle"
          /\ req[w].by \in Students \ {response'.by}

\* C27: of two students' concurrent first-time generate_certificate requests
\* each returns the PDF: the row the other request has inserted with an empty
\* number does not make the insert fail, and the student's row ends with a
\* non-empty number.
C27_ConcurrentFirstRequestsSucceed ==
    [][ConcurrentFirstTime =>
         /\ response'.kind = "pdf"
         /\ \A r \in certificates' :
               r.student = response'.by => r.certificate_number # EmptyNumber]_vars

\* the endpoints that only read
ReadOnlyOps == {"dashboard", "course_detail", "student_profile",
                "announcements", "course_list", "download_resource"}

\* a response that turns the request away: no session, no profile, not
\* enrolled, not eligible, module not found, or a login that failed
Rejection(r) ==
    \/ /\ r.op \in LoginRequiredOps
       /\ r.kind \in {"redirect_login", "redirect_home"}
    \/ /\ r.op \in {"module_detail", "generate_certificate"}
       /\ r.kind \in {"redirect_dashboard", "redirect_course_detail", "not_found"}
    \/ /\ r.op = "student_login"
       /\ r.kind \in {"invalid_credentials", "not_a_student",
                      "pending_verification"}

\* C28: a rejected request and a request to a read-only endpoint leave
\* Certificate rows, ModuleCompletion rows, enrolments and verification flags
\* as they were; of the student-facing requests only a module_detail that
\* renders changes ModuleCompletion rows and only a generate_certificate
\* request in flight changes Certificate rows.
C28_RejectedAndReadOnlyWriteNothing ==
    [][/\ (/\ response' # response
           /\ response'.op \in ReadOnlyOps \/ Rejection(response'))
          => UNCHANGED <<certificates, completions, enrolled_courses,
                         is_verified>>
       /\ completions' # completions
          => /\ response'.op = "module_detail"
             /\ response'.kind = "render"
       /\ certificates' # certificates
          => \E w \in Workers : /\ req[w].pc # "idle"
                                /\ req'[w] # req[w]]_vars

C28_Witness ==
    /\ response.op = "module_detail"
    /\ response.kind = "redirect_dashboard"
    /\ response.by = "s1"
    /\ \E r \in certificates : r.student = "s1" /\ r.pdf_file # 0
    /\ \E r \in completions : r.student = "s1"

\* C29: module_detail renders only a module with is_published = true and
\* ModuleCompletion rows are created only for such modules; a student's
\* request for an unpublished module is answered with not-found and creates
\* no row, whether or not the student is enrolled in its course.
C29_UnpublishedModuleNotFound ==
    [][/\ (/\ response' # response
           /\ response'.op = "module_detail")
          => /\ response'.kind = "render" => is_published[response'.arg]
             /\ (HasStudent(response'.by) /\ ~ is_published[response'.arg])
                   => /\ response'.kind = "not_found"
                      /\ completions' = completions
       /\ \A r \in completions' :
             (~ \E q \in completions : q.pk = r.pk) => is_published[r.module]]_vars

C29_Witness ==
    /\ response.op = "module_detail"
    /\ response.kind = "not_found"
    /\ response.by \in Students
    /\ ~ is_published[response.arg]
    /\ module_course[response.arg] \in enrolled_courses[response.by]

\* C30: an anonymous login attempt with correct credentials for an account
\* that has no StudentProfile establishes no session and is answered with
\* the login page and its not-a-student error.
C30_NonStudentLoginRefused ==
    [][(/\ response' # response
        /\ response'.op = "student_login"
        /\ response'.by = Anon
        /\ response'.creds
        /\ UserExists(response'.arg)
        /\ ~ HasProfile(response'.arg))
       => /\ response'.kind = "not_a_student"
          /\ sessions' = sessions]_vars

C30_Witness ==
    /\ response.op = "student_login"
    /\ response.arg = Staff
    /\ response.creds
    /\ response.kind = "not_a_student"
    /\ Staff \notin sessions

====
